---------------------------- MODULE Spec2Model ----------------------------
(***************************************************************************)
(* TutoBot orchestration core (src/agents.py): the structured-output      *)
(* extractor parse_json, the task executor run_agent, the session lookup   *)
(* _get_or_create_session, the generator/evaluator loop                    *)
(* run_with_evaluation and the pipeline run_full_pipeline.                 *)
(*                                                                         *)
(* Text is a sequence of one-character strings.  A JSON value is a tagged  *)
(* record: [t |-> "obj", v |-> function from key text to value],           *)
(* [t |-> "arr", v |-> sequence], [t |-> "str", v |-> text],               *)
(* [t |-> "int", v |-> integer], [t |-> "lit", v |-> "true"|"false"|"null"].*)
(* Python indices are kept 0-based, with -1 for "not found".               *)
(***************************************************************************)
EXTENDS Integers, Sequences, FiniteSets, TLC

(***************************************************************************)
(* Text constants of the source.                                           *)
(***************************************************************************)
\* The backtick character (the string syntax has no way to write it)
Backtick == "BACKTICK"
Fence == <<Backtick, Backtick, Backtick>>
K_error == <<"e", "r", "r", "o", "r">>
K_raw_output == <<"r", "a", "w", "_", "o", "u", "t", "p", "u", "t">>
FailedToParseJSON == <<"F", "a", "i", "l", "e", "d", " ", "t", "o", " ", "p", "a", "r", "s", "e", " ", "J", "S", "O", "N">>
K_status == <<"s", "t", "a", "t", "u", "s">>
K_quality_score == <<"q", "u", "a", "l", "i", "t", "y", "_", "s", "c", "o", "r", "e">>
K_feedback == <<"f", "e", "e", "d", "b", "a", "c", "k">>
K_evaluation_result == <<"e", "v", "a", "l", "u", "a", "t", "i", "o", "n", "_", "r", "e", "s", "u", "l", "t">>
K_previous_feedback == <<"p", "r", "e", "v", "i", "o", "u", "s", "_", "f", "e", "e", "d", "b", "a", "c", "k">>
APPROVED == <<"A", "P", "P", "R", "O", "V", "E", "D">>
REJECTED == <<"R", "E", "J", "E", "C", "T", "E", "D">>
NoFeedbackProvided == <<"N", "o", " ", "f", "e", "e", "d", "b", "a", "c", "k", " ", "p", "r", "o", "v", "i", "d", "e", "d">>
K_curriculum == <<"c", "u", "r", "r", "i", "c", "u", "l", "u", "m">>
K_lessons == <<"l", "e", "s", "s", "o", "n", "s">>
K_assessments == <<"a", "s", "s", "e", "s", "s", "m", "e", "n", "t", "s">>

(***************************************************************************)
(* JSON values.                                                            *)
(***************************************************************************)
EmptyMap == [k \in {} |-> 0]
Obj(m) == [t |-> "obj", v |-> m]
Arr(s) == [t |-> "arr", v |-> s]
Str(s) == [t |-> "str", v |-> s]
Int_(n) == [t |-> "int", v |-> n]
Lit(x) == [t |-> "lit", v |-> x]
\* None of Python, for the locals of run_with_evaluation before the first attempt
None == Lit("null")

IsObj(x) == x.t = "obj"
\* dict.get(key, default)
Get(d, k, default) == IF k \in DOMAIN d.v THEN d.v[k] ELSE default
HasKey(d, k) == k \in DOMAIN d.v
\* d[key] = value on a dict; the last write of a key wins
Put(d, k, x) == Obj((k :> x) @@ d.v)

(***************************************************************************)
(* Python str.find / str.rfind / slicing / strip.                          *)
(***************************************************************************)
SetMin(S) == CHOOSE x \in S : \A y \in S : x <= y
SetMax(S) == CHOOSE x \in S : \A y \in S : x >= y
Occurrences(s, sub, start) ==
    { i \in start .. (Len(s) - Len(sub)) : \A j \in 1 .. Len(sub) : s[i + j] = sub[j] }
Find(s, sub, start) ==
    IF Occurrences(s, sub, start) = {} THEN -1 ELSE SetMin(Occurrences(s, sub, start))
RFind(s, sub) ==
    IF Occurrences(s, sub, 0) = {} THEN -1 ELSE SetMax(Occurrences(s, sub, 0))
\* An index of a slice: negative counts from the end, then clipped to 0..len
SliceIndex(n, i) ==
    LET k == IF i < 0 THEN i + n ELSE i
    IN  IF k < 0 THEN 0 ELSE IF k > n THEN n ELSE k
PySlice(s, a, b) ==
    LET lo == SliceIndex(Len(s), a)
        hi == SliceIndex(Len(s), b)
    IN  IF lo >= hi THEN <<>> ELSE SubSeq(s, lo + 1, hi)
IsWs(c) == c \in {" ", "\n", "\t", "\r"}
RECURSIVE LStrip(_)
LStrip(s) == IF s # <<>> /\ IsWs(Head(s)) THEN LStrip(Tail(s)) ELSE s
RECURSIVE RStrip(_)
RStrip(s) == IF s # <<>> /\ IsWs(s[Len(s)]) THEN RStrip(SubSeq(s, 1, Len(s) - 1)) ELSE s
Strip(s) == RStrip(LStrip(s))

(***************************************************************************)
(* json.loads on the JSON grammar of objects, arrays, strings, integers    *)
(* and the three literals.  A result is [ok |-> FALSE] (JSONDecodeError)   *)
(* or [ok |-> TRUE, val |-> value, next |-> index after the value].        *)
(***************************************************************************)
Fail == [ok |-> FALSE]
Ok(x, n) == [ok |-> TRUE, val |-> x, next |-> n]
Digits == {"0", "1", "2", "3", "4", "5", "6", "7", "8", "9"}
DigitVal(c) ==
    CASE c = "0" -> 0 [] c = "1" -> 1 [] c = "2" -> 2 [] c = "3" -> 3 [] c = "4" -> 4
      [] c = "5" -> 5 [] c = "6" -> 6 [] c = "7" -> 7 [] c = "8" -> 8 [] c = "9" -> 9
DigitChar(d) ==
    CASE d = 0 -> "0" [] d = 1 -> "1" [] d = 2 -> "2" [] d = 3 -> "3" [] d = 4 -> "4"
      [] d = 5 -> "5" [] d = 6 -> "6" [] d = 7 -> "7" [] d = 8 -> "8" [] d = 9 -> "9"
Escapes == {"\"", "\\", "/", "n", "t", "r"}
Unescape(c) ==
    CASE c = "n" -> "\n" [] c = "t" -> "\t" [] c = "r" -> "\r" [] OTHER -> c
At(s, i, c) == i <= Len(s) /\ s[i] = c
StartsWith(s, i, w) == i + Len(w) - 1 <= Len(s) /\ SubSeq(s, i, i + Len(w) - 1) = w

RECURSIVE SkipWs(_, _)
SkipWs(s, i) == IF i <= Len(s) /\ IsWs(s[i]) THEN SkipWs(s, i + 1) ELSE i

\* i is the index after the opening quote
RECURSIVE ScanString(_, _, _)
ScanString(s, i, acc) ==
    IF i > Len(s) THEN Fail
    ELSE IF s[i] = "\"" THEN Ok(Str(acc), i + 1)
    ELSE IF s[i] = "\\" THEN
        IF i + 1 <= Len(s) /\ s[i + 1] \in Escapes
        THEN ScanString(s, i + 2, Append(acc, Unescape(s[i + 1])))
        ELSE Fail
    ELSE IF IsWs(s[i]) /\ s[i] # " " THEN Fail
    ELSE ScanString(s, i + 1, Append(acc, s[i]))

RECURSIVE ScanDigits(_, _, _)
ScanDigits(s, i, acc) ==
    IF i <= Len(s) /\ s[i] \in Digits
    THEN ScanDigits(s, i + 1, 10 * acc + DigitVal(s[i]))
    ELSE Ok(Int_(acc), i)
\* i is the index of the first digit; a leading 0 is a number by itself
ScanNumber(s, i, sign) ==
    IF ~(i <= Len(s) /\ s[i] \in Digits) THEN Fail
    ELSE IF s[i] = "0" THEN Ok(Int_(0), i + 1)
    ELSE LET r == ScanDigits(s, i, 0) IN Ok(Int_(sign * r.val.v), r.next)

RECURSIVE ParseValue(_, _)
RECURSIVE ParseMembers(_, _, _)
RECURSIVE ParseElements(_, _, _)
\* i is the index of the first character of the value
ParseValue(s, i) ==
    IF i > Len(s) THEN Fail
    ELSE IF s[i] = "{" THEN
        IF At(s, SkipWs(s, i + 1), "}") THEN Ok(Obj(EmptyMap), SkipWs(s, i + 1) + 1)
        ELSE ParseMembers(s, SkipWs(s, i + 1), EmptyMap)
    ELSE IF s[i] = "[" THEN
        IF At(s, SkipWs(s, i + 1), "]") THEN Ok(Arr(<<>>), SkipWs(s, i + 1) + 1)
        ELSE ParseElements(s, SkipWs(s, i + 1), <<>>)
    ELSE IF s[i] = "\"" THEN ScanString(s, i + 1, <<>>)
    ELSE IF s[i] = "-" THEN ScanNumber(s, i + 1, -1)
    ELSE IF s[i] \in Digits THEN ScanNumber(s, i, 1)
    ELSE IF StartsWith(s, i, <<"t", "r", "u", "e">>) THEN Ok(Lit("true"), i + 4)
    ELSE IF StartsWith(s, i, <<"f", "a", "l", "s", "e">>) THEN Ok(Lit("false"), i + 5)
    ELSE IF StartsWith(s, i, <<"n", "u", "l", "l">>) THEN Ok(Lit("null"), i + 4)
    ELSE Fail
\* i is the index where a key must start; m holds the members read so far
ParseMembers(s, i, m) ==
    IF ~At(s, i, "\"") THEN Fail
    ELSE LET k == ScanString(s, i + 1, <<>>) IN
      IF ~k.ok \/ ~At(s, SkipWs(s, k.next), ":") THEN Fail
      ELSE LET x == ParseValue(s, SkipWs(s, SkipWs(s, k.next) + 1)) IN
        IF ~x.ok THEN Fail
        ELSE LET j  == SkipWs(s, x.next)
                 m2 == (k.val.v :> x.val) @@ m
             IN  IF At(s, j, "}") THEN Ok(Obj(m2), j + 1)
                 ELSE IF At(s, j, ",") THEN ParseMembers(s, SkipWs(s, j + 1), m2)
                 ELSE Fail
\* i is the index where an element must start; a holds the elements read so far
ParseElements(s, i, a) ==
    LET x == ParseValue(s, i) IN
      IF ~x.ok THEN Fail
      ELSE LET j == SkipWs(s, x.next) IN
             IF At(s, j, "]") THEN Ok(Arr(Append(a, x.val)), j + 1)
             ELSE IF At(s, j, ",") THEN ParseElements(s, SkipWs(s, j + 1), Append(a, x.val))
             ELSE Fail

\* json.loads(s): one value, surrounded by optional whitespace, and nothing else
json_loads(s) ==
    LET r == ParseValue(s, SkipWs(s, 1)) IN
      IF r.ok /\ SkipWs(s, r.next) = Len(s) + 1 THEN [ok |-> TRUE, val |-> r.val]
      ELSE Fail

(***************************************************************************)
(* json.dumps with its default separators ", " and ": ".                   *)
(***************************************************************************)
RECURSIVE IntText(_)
IntText(n) ==
    IF n < 0 THEN <<"-">> \o IntText(-n)
    ELSE IF n < 10 THEN <<DigitChar(n)>>
    ELSE IntText(n \div 10) \o <<DigitChar(n % 10)>>
RECURSIVE EscapeText(_)
EscapeText(s) ==
    IF s = <<>> THEN <<>>
    ELSE (CASE Head(s) = "\"" -> <<"\\", "\"">>
            [] Head(s) = "\\" -> <<"\\", "\\">>
            [] Head(s) = "\n" -> <<"\\", "n">>
            [] Head(s) = "\t" -> <<"\\", "t">>
            [] Head(s) = "\r" -> <<"\\", "r">>
            [] OTHER -> <<Head(s)>>) \o EscapeText(Tail(s))
Quoted(s) == <<"\"">> \o EscapeText(s) \o <<"\"">>

RECURSIVE json_dumps(_)
RECURSIVE DumpMembers(_, _)
RECURSIVE DumpElements(_)
json_dumps(x) ==
    CASE x.t = "obj" -> <<"{">> \o DumpMembers(x.v, DOMAIN x.v) \o <<"}">>
      [] x.t = "arr" -> <<"[">> \o DumpElements(x.v) \o <<"]">>
      [] x.t = "str" -> Quoted(x.v)
      [] x.t = "int" -> IntText(x.v)
      [] x.t = "lit" -> (CASE x.v = "true" -> <<"t", "r", "u", "e">>
                           [] x.v = "false" -> <<"f", "a", "l", "s", "e">>
                           [] x.v = "null" -> <<"n", "u", "l", "l">>)
DumpMembers(m, keys) ==
    IF keys = {} THEN <<>>
    ELSE LET k == CHOOSE k \in keys : TRUE IN
           Quoted(k) \o <<":", " ">> \o json_dumps(m[k])
             \o (IF keys = {k} THEN <<>> ELSE <<",", " ">> \o DumpMembers(m, keys \ {k}))
DumpElements(a) ==
    IF a = <<>> THEN <<>>
    ELSE json_dumps(Head(a))
           \o (IF Len(a) = 1 THEN <<>> ELSE <<",", " ">> \o DumpElements(Tail(a)))

(***************************************************************************)
(* parse_json and the parsing tail of run_agent.                           *)
(***************************************************************************)
\* text[txt_start:txt_end+1] with txt_start = find('```') + 3
FencedPart(text) ==
    LET txt_start == Find(text, Fence, 0) + 3
        txt_end   == Find(text, Fence, txt_start)
    IN  PySlice(text, txt_start, txt_end + 1)
\* faulty variant: the span ends at the first closing brace
BraceSpan_first(text) == PySlice(text, Find(text, <<"{">>, 0), Find(text, <<"}">>, 0) + 1)
\* text[text.find('{'):text.rfind('}')+1]
BraceSpan(text) == PySlice(text, Find(text, <<"{">>, 0), RFind(text, <<"}">>) + 1)

parse_json(text) == json_loads(Strip(BraceSpan(FencedPart(text))))

\* faulty variant: raw_output holds the text as parse_json cut it
Sentinel_cut(text) ==
    Obj((K_error :> Str(FailedToParseJSON)) @@ (K_raw_output :> Str(FencedPart(text))))
\* {"error": "Failed to parse JSON", "raw_output": output_text}
Sentinel(text) ==
    Obj((K_error :> Str(FailedToParseJSON)) @@ (K_raw_output :> Str(text)))
\* run_agent from the concatenated output text on: the parsed structure, or the
\* sentinel when parse_json raises JSONDecodeError
run_agent_result(text) ==
    LET r == parse_json(text) IN IF r.ok THEN r.val ELSE Sentinel(text)

(***************************************************************************)
(* State.                                                                  *)
(***************************************************************************)
VARIABLES
    \* parse_json / run_agent on one output text
    ppc,            \* "off", "ready" (text collected), "done" (run_agent returned)
    parts,          \* how output_text was put together
    output_text,    \* run_agent: the concatenated text of the agent's events
    parsed,         \* what parse_json(output_text) gave: [ok, val] or [ok |-> FALSE]
    agent_result,   \* run_agent: the value returned
    \* one invocation of run_with_evaluation
    pc,             \* "off", "loop" (line 231), "evaluate" (line 246), "returned", "raised"
    generator_name, input_data, max_iterations,         \* its arguments
    iteration, current_input, content, evaluation,      \* its locals
    result,         \* the generator's run_agent result of this iteration
    ret,            \* the value returned
    err,            \* the exception that left the loop, "none" if none
    gen_calls, eval_calls,      \* run_agent invocations made so far
    gen_input, eval_input,      \* the input of the latest generator / evaluator call
    gen_texts, eval_texts,      \* the answers (by label) the agents have given so far
    log,            \* the agents run_agent was called for so far, in order
    \* concurrent calls of _get_or_create_session on one session service
    store,          \* session_service: the session keys that have a session
    created,        \* session key -> sessions created for it so far
    spc,            \* per caller: "idle", "get", "create_try", "create_except", "done", "failed"
    skey,           \* per caller: the (app_name, session_id, user_id) of its call
    session,        \* per caller: its local session, NoSession or the key of the session
    looked_up,      \* per caller: how get_session ended: "pending", "found", "missing", "raised"
    creates,        \* per caller: the keys it passed to create_session, in order
    serr,           \* per caller: the exception that left the call, "none" if none
    calls,          \* per caller: calls started so far
    \* run_full_pipeline
    ploc,           \* "off", "start", "planning", "lessons", "assessment", "export", "done", "raised"
    teacher_input,  \* the argument of run_full_pipeline
    results,        \* the dict results, a function from key to value
    curriculum,     \* the local curriculum
    all_lessons,    \* the local all_lessons, a sequence
    week_index,     \* how many elements of curriculum[:2] the for loop has finished
    export_input,   \* the input handed to the export agent
    perr,           \* the exception that left run_full_pipeline, "none" if none
    \* a second invocation of run_with_evaluation, given the same generator
    \* outputs and the same verdicts but for their quality_score
    pc2, iteration2, current_input2, ret2, log2,
    \* the sessions that the default session ids of run_agent resolve to
    ipc,            \* "off", "idle", "loop", "evaluate", "done", "raised"
    iloop,          \* invocations of run_with_evaluation started so far
    iiter,          \* the local iteration of the invocation under way
    igen,           \* its generator_name
    caddr,          \* id(current_input), 0 when there is no such object
    eaddr,          \* id(eval_input), 0 when there is no such object
    isess,          \* session service: per (agent, session id) the turns of the session
    gen_trace       \* the generator calls of the invocation under way

parseVars == <<ppc, parts, output_text, parsed, agent_result>>
loopVars == <<pc, generator_name, input_data, max_iterations, iteration, current_input,
              content, evaluation, result, ret, err,
              gen_calls, eval_calls, gen_input, eval_input, gen_texts, eval_texts, log>>
sessVars == <<store, created, spc, skey, session, looked_up, creates, serr, calls>>
pipeVars == <<ploc, teacher_input, results, curriculum, all_lessons, week_index,
              export_input, perr>>
twinVars == <<pc2, iteration2, current_input2, ret2, log2>>
idVars == <<ipc, iloop, iiter, igen, caddr, eaddr, isess, gen_trace>>
vars == <<parseVars, loopVars, sessVars, pipeVars, twinVars, idVars>>

(***************************************************************************)
(* Output texts: prose, an optional opening fence, a body, an optional     *)
(* closing fence, prose.                                                   *)
(***************************************************************************)
X1 == Obj(<<"x">> :> Int_(1))
Records ==
    { Obj(EmptyMap),
      X1,
      Obj(<<"a">> :> Str(Fence)),
      Obj(<<"a">> :> Obj(<<"b">> :> Arr(<<Int_(1), Obj(<<"c">> :> Str(<<"}">>))>>))),
      Obj((<<"s">> :> Str(<<"{", "\"">>)) @@ (<<"n">> :> Int_(105))),
      Obj((K_status :> Str(APPROVED)) @@ (K_feedback :> Str(<<>>))) }
\* Bodies that are not the serialization of a record
Malformed ==
    { <<"{", "\"", "x", "\"">>,
      <<"o", "k">>,
      <<"{", "\"", "x", "\"", ":", "1", "}", " ", "x", " ", "}">> }
Bodies ==
    { [rec |-> r, text |-> json_dumps(r)] : r \in Records }
      \cup { [rec |-> None, text |-> m] : m \in Malformed }
Prose ==
    { <<>>,
      <<"h", "i", " ">>,
      <<"{", "}">>,
      <<Backtick, Backtick>>,
      Fence \o <<"a">> }
\* What may follow an opening fence before the body
Tags == { <<>>, <<"j", "s", "o", "n", "\n">> }
BuildText(p) ==
    p.p1 \o (IF p.open THEN Fence \o p.tag ELSE <<>>) \o p.body.text
         \o (IF p.close THEN Fence ELSE <<>>) \o p.p2
NoParts == [p1 |-> <<>>, open |-> FALSE, tag |-> <<>>, body |-> [rec |-> None, text |-> <<>>],
            close |-> FALSE, p2 |-> <<>>]

InitParseOff ==
    /\ ppc = "off"
    /\ parts = NoParts
    /\ output_text = <<>>
    /\ parsed = Fail
    /\ agent_result = None

InitParse ==
    /\ ppc = "ready"
    /\ parts \in [p1 : Prose, open : BOOLEAN, tag : Tags, body : Bodies,
                   close : BOOLEAN, p2 : Prose]
    /\ output_text = BuildText(parts)
    /\ parsed = Fail
    /\ agent_result = None

\* run_agent, from the collected output text to its return
RunAgentParse ==
    /\ ppc = "ready"
    /\ ppc' = "done"
    /\ parsed' = parse_json(output_text)
    /\ agent_result' = run_agent_result(output_text)
    /\ UNCHANGED <<parts, output_text>>
    /\ UNCHANGED <<loopVars, sessVars, pipeVars, twinVars, idVars>>


(***************************************************************************)
(* run_with_evaluation.                                                    *)
(***************************************************************************)
MaxIter == 3
\* QUALITY_THRESHOLD, line 27 (read by no statement of the module)
QUALITY_THRESHOLD == 70
\* what an agent invocation can raise: no session (line 159), or the model call
AgentErrors == {"SessionUnavailable", "TransportError"}
GeneratorNames == {"planner", "lesson", "assessment"}
\* agents[name].output_key
output_key(name) ==
    CASE name = "planner" -> K_curriculum
      [] name = "lesson" -> K_lessons
      [] name = "assessment" -> K_assessments
\* agents[name].instruction, the prompt text kept as one symbol
instruction(name) == Str(<<"PROMPT", name>>)

K_generator_name == <<"g", "e", "n", "e", "r", "a", "t", "o", "r", "_", "n", "a", "m", "e">>
K_original_instruction == <<"o", "r", "i", "g", "i", "n", "a", "l", "_", "i", "n", "s", "t", "r", "u", "c", "t", "i", "o", "n">>
K_generator_inputs == <<"g", "e", "n", "e", "r", "a", "t", "o", "r", "_", "i", "n", "p", "u", "t", "s">>
K_generator_output == <<"g", "e", "n", "e", "r", "a", "t", "o", "r", "_", "o", "u", "t", "p", "u", "t">>
K_grade == <<"g", "r", "a", "d", "e">>
K_week == <<"w", "e", "e", "k">>
FixX == <<"f", "i", "x", " ", "x">>
AddY == <<"a", "d", "d", " ", "y">>

\* faulty variant: the loop is also entered when the attempts equal the budget
ContinueLoop_le(i, max) == i <= max
\* while iteration < max_iterations
ContinueLoop(i, max) == i < max
\* faulty variant: the attempt is not counted
NextIteration_same(i) == i
\* iteration += 1
NextIteration(i) == i + 1
\* content = result.get(output_key, result)
ContentOf(name, res) == Get(res, output_key(name), res)
\* faulty variant: the evaluator is given the input of the current attempt
EvalInput_current(name, inp, res) ==
    Obj((K_generator_name :> Str(<<name>>))
        @@ (K_original_instruction :> instruction(name))
        @@ (K_generator_inputs :> current_input)
        @@ (K_generator_output :> res))
\* eval_input
EvalInput(name, inp, res) ==
    Obj((K_generator_name :> Str(<<name>>))
        @@ (K_original_instruction :> instruction(name))
        @@ (K_generator_inputs :> inp)
        @@ (K_generator_output :> res))
\* evaluation = eval_result.get("evaluation_result", eval_result)
VerdictOf(eval_result) == Get(eval_result, K_evaluation_result, eval_result)
\* faulty variant: the approval is recomputed from the score
StatusOf_scored(ev) ==
    IF Get(ev, K_quality_score, Int_(0)).v >= QUALITY_THRESHOLD
    THEN Str(APPROVED) ELSE Str(REJECTED)
\* faulty variant: a verdict without a status counts as approved
StatusOf_open(ev) == Get(ev, K_status, Str(APPROVED))
\* status = evaluation.get("status", "REJECTED")
StatusOf(ev) == Get(ev, K_status, Str(REJECTED))
ScoreOf(ev) == Get(ev, K_quality_score, Int_(0))
FeedbackOf(ev) == Get(ev, K_feedback, Str(NoFeedbackProvided))
\* faulty variant: an approval does not end the loop while attempts are left
Decide_noexit(status, i, max) ==
    IF i < max THEN "retry" ELSE IF status = Str(APPROVED) THEN "approved" ELSE "exhausted"
\* lines 264-280: what the loop does with the status of an attempt
Decide(status, i, max) ==
    IF status = Str(APPROVED) THEN "approved"
    ELSE IF i < max THEN "retry"
    ELSE "exhausted"
\* faulty variant: current_input is the caller's mapping itself
CallerInputAfter_alias(inp, cur) == cur
\* line 224: current_input is a copy, so the assignment of line 275 leaves the
\* caller's mapping as it was
CallerInputAfter(inp, cur) == inp
\* faulty variant: a feedback already in the input is kept
NextInput_keep(cur, fb) ==
    IF HasKey(cur, K_previous_feedback) THEN cur ELSE Put(cur, K_previous_feedback, fb)
\* current_input["previous_feedback"] = feedback
NextInput(cur, fb) == Put(cur, K_previous_feedback, fb)
\* faulty variant: the attempts are counted from 0
ApprovedResult_from0(c, ev, i) == [content |-> c, evaluation |-> ev, iterations |-> i - 1]
\* line 266
ApprovedResult(c, ev, i) == [content |-> c, evaluation |-> ev, iterations |-> i]
\* line 282
FallThroughResult(c, ev, i) == [content |-> c, evaluation |-> ev, iterations |-> i]
\* faulty variant: the warning is left out
ExhaustedResult_nowarning(c, ev, i) == [content |-> c, evaluation |-> ev, iterations |-> i]
\* lines 279-280
ExhaustedResult(c, ev, i) ==
    [content |-> c, evaluation |-> ev, iterations |-> i,
     warning |-> "Max iterations reached without approval"]
NotReturned == [pending |-> TRUE]
\* faulty variant: an exception of run_agent is swallowed and the loop goes on
OnAgentError_retry == "loop"
\* lines 237 and 253: the await of run_agent stands in no try block, so an
\* exception of the invocation leaves run_with_evaluation
OnAgentError == "raised"

(***************************************************************************)
(* The texts the agents answer with.                                       *)
(***************************************************************************)
Fenced(text) == Fence \o <<"j", "s", "o", "n", "\n">> \o text \o <<"\n">> \o Fence
X1Text == <<"{", "\"", "x", "\"", ":", "1", "}">>
VerdictRec(st, score, fb) ==
    Obj((K_status :> Str(st)) @@ (K_quality_score :> Int_(score)) @@ (K_feedback :> Str(fb)))
Wrapped(x) == Obj(K_evaluation_result :> x)
\* Three units, as in the output format of the planner prompt
Units == <<Obj(K_week :> Int_(1)), Obj(K_week :> Int_(2)), Obj(K_week :> Int_(3))>>
\* The generator's answers: the bare record; the record in a fenced block; a
\* fenced record that holds the list of units under the generator's output key
\* (the documented format); one that holds that record under the output key;
\* and a fenced text that is no JSON
GenLabels == {"bare", "fenced", "keyed", "nested", "garbled"}
GenText(name, l) ==
    CASE l = "bare" -> X1Text
      [] l = "fenced" -> Fenced(X1Text)
      [] l = "keyed" -> Fenced(json_dumps(Obj(output_key(name) :> Arr(Units))))
      [] l = "nested" ->
            Fenced(json_dumps(Obj(output_key(name) :> Obj(output_key(name) :> Arr(Units)))))
      [] l = "garbled" -> Fenced(<<"{", "o", "o", "p", "s">>)
\* The evaluator's answers
ApprovingLabels == {"approved_wrapped", "approved_flat", "approved_low"}
RejectingLabels == {"rejected_flat", "rejected_wrapped", "rejected_bare"}
OddLabels == {"no_status", "not_a_mapping"}
EvalLabels == ApprovingLabels \cup RejectingLabels \cup OddLabels
EvalText(l) ==
    CASE l = "approved_wrapped" -> Fenced(json_dumps(Wrapped(VerdictRec(APPROVED, 90, <<>>))))
      [] l = "approved_flat" -> Fenced(json_dumps(VerdictRec(APPROVED, 90, <<>>)))
      [] l = "approved_low" -> Fenced(json_dumps(Wrapped(VerdictRec(APPROVED, 10, <<>>))))
      [] l = "rejected_flat" -> Fenced(json_dumps(VerdictRec(REJECTED, 10, FixX)))
      [] l = "rejected_wrapped" -> Fenced(json_dumps(Wrapped(VerdictRec(REJECTED, 40, AddY))))
      [] l = "rejected_bare" -> json_dumps(VerdictRec(REJECTED, 10, FixX))
      [] l = "no_status" -> Fenced(json_dumps(Wrapped(Obj(K_quality_score :> Int_(95)))))
      [] l = "not_a_mapping" -> Fenced(json_dumps(Wrapped(Str(APPROVED))))
\* run_agent on each text, computed once
GenOutcomes ==
    { [name |-> n, label |-> l, result |-> run_agent_result(GenText(n, l))] :
        n \in GeneratorNames, l \in GenLabels }
EvalOutcomes == { [label |-> l, result |-> run_agent_result(EvalText(l))] : l \in EvalLabels }
GenResult(n, l) == (CHOOSE o \in GenOutcomes : o.name = n /\ o.label = l).result
EvalResult(l) == (CHOOSE o \in EvalOutcomes : o.label = l).result

Inputs ==
    { Obj(K_grade :> Int_(5)),
      Obj((K_grade :> Int_(5)) @@ (K_previous_feedback :> Str(<<"o", "l", "d">>))) }

InitLoopOff ==
    /\ pc = "off"
    /\ generator_name = "planner"
    /\ input_data = Obj(EmptyMap)
    /\ max_iterations = 0
    /\ iteration = 0
    /\ current_input = Obj(EmptyMap)
    /\ content = None
    /\ evaluation = None
    /\ result = None
    /\ ret = NotReturned
    /\ err = "none"
    /\ gen_calls = 0
    /\ eval_calls = 0
    /\ gen_input = None
    /\ eval_input = None
    /\ gen_texts = {}
    /\ eval_texts = {}
    /\ log = <<>>

\* lines 223-229
InitLoop ==
    /\ pc = "loop"
    /\ generator_name \in GeneratorNames
    /\ input_data \in Inputs
    /\ max_iterations \in -1 .. MaxIter
    /\ iteration = 0
    /\ current_input = input_data
    /\ content = None
    /\ evaluation = None
    /\ result = None
    /\ ret = NotReturned
    /\ err = "none"
    /\ gen_calls = 0
    /\ eval_calls = 0
    /\ gen_input = None
    /\ eval_input = None
    /\ gen_texts = {}
    /\ eval_texts = {}
    /\ log = <<>>

\* lines 231-240: the generator's run_agent returns
GenerateStep ==
    /\ pc = "loop"
    /\ ContinueLoop(iteration, max_iterations)
    /\ gen_calls <= MaxIter        \* keeps the counter finite
    /\ iteration' = NextIteration(iteration)
    /\ gen_calls' = gen_calls + 1
    /\ gen_input' = current_input
    /\ log' = Append(log, generator_name)
    /\ \E t \in GenLabels :
         /\ gen_texts' = gen_texts \cup {t}
         /\ result' = GenResult(generator_name, t)
         /\ content' = ContentOf(generator_name, GenResult(generator_name, t))
    /\ pc' = "evaluate"
    /\ UNCHANGED <<generator_name, input_data, max_iterations, current_input, evaluation,
                   ret, err, eval_calls, eval_input, eval_texts>>
\* one loop alone: the generator answers
Generate ==
    /\ GenerateStep
    /\ UNCHANGED <<parseVars, sessVars, pipeVars, twinVars, idVars>>

\* lines 231-237: the generator's run_agent raises (no session, or the model call fails)
GenerateRaises ==
    /\ pc = "loop"
    /\ ContinueLoop(iteration, max_iterations)
    /\ gen_calls <= MaxIter        \* keeps the counter finite
    /\ iteration' = NextIteration(iteration)
    /\ gen_calls' = gen_calls + 1
    /\ gen_input' = current_input
    /\ log' = Append(log, generator_name)
    /\ err' \in AgentErrors
    /\ pc' = OnAgentError
    /\ UNCHANGED <<generator_name, input_data, max_iterations, current_input, content,
                   evaluation, result, ret, eval_calls, eval_input,
                   gen_texts, eval_texts>>
    /\ UNCHANGED <<parseVars, sessVars, pipeVars, twinVars, idVars>>

\* lines 246-280: the evaluator's run_agent returns, and the loop decides
EvaluateStep ==
    /\ pc = "evaluate"
    /\ eval_calls' = eval_calls + 1
    /\ eval_input' = EvalInput(generator_name, input_data, result)
    /\ log' = Append(log, "evaluator")
    /\ \E t \in EvalLabels :
         LET ev == VerdictOf(EvalResult(t)) IN
           /\ eval_texts' = eval_texts \cup {t}
           /\ evaluation' = ev
           /\ IF ~IsObj(ev)
              THEN \* evaluation.get on a value that is no dict
                   /\ err' = "AttributeError"
                   /\ pc' = "raised"
                   /\ UNCHANGED <<current_input, ret>>
              ELSE /\ err' = err
                   /\ CASE Decide(StatusOf(ev), iteration, max_iterations) = "approved" ->
                             /\ ret' = ApprovedResult(content, ev, iteration)
                             /\ pc' = "returned"
                             /\ UNCHANGED current_input
                        [] Decide(StatusOf(ev), iteration, max_iterations) = "retry" ->
                             /\ current_input' = NextInput(current_input, FeedbackOf(ev))
                             /\ pc' = "loop"
                             /\ UNCHANGED ret
                        [] Decide(StatusOf(ev), iteration, max_iterations) = "exhausted" ->
                             /\ ret' = ExhaustedResult(content, ev, iteration)
                             /\ pc' = "returned"
                             /\ UNCHANGED current_input
    /\ input_data' = CallerInputAfter(input_data, current_input')
    /\ UNCHANGED <<generator_name, max_iterations, iteration, content, result,
                   gen_calls, gen_input, gen_texts>>
\* one loop alone: the evaluator answers and the loop decides
Evaluate ==
    /\ EvaluateStep
    /\ UNCHANGED <<parseVars, sessVars, pipeVars, twinVars, idVars>>

\* line 253: the evaluator's run_agent raises
EvaluateRaises ==
    /\ pc = "evaluate"
    /\ eval_calls' = eval_calls + 1
    /\ eval_input' = EvalInput(generator_name, input_data, result)
    /\ log' = Append(log, "evaluator")
    /\ err' \in AgentErrors
    /\ pc' = OnAgentError
    /\ UNCHANGED <<generator_name, input_data, max_iterations, iteration, current_input,
                   content, evaluation, result, ret, gen_calls, gen_input,
                   gen_texts, eval_texts>>
    /\ UNCHANGED <<parseVars, sessVars, pipeVars, twinVars, idVars>>

\* lines 231 and 282: the loop condition fails
LoopExitStep ==
    /\ pc = "loop"
    /\ ~ContinueLoop(iteration, max_iterations)
    /\ ret' = FallThroughResult(content, evaluation, iteration)
    /\ pc' = "returned"
    /\ UNCHANGED <<generator_name, input_data, max_iterations, iteration, current_input,
                   content, evaluation, result, err, gen_calls,
                   eval_calls, gen_input, eval_input, gen_texts, eval_texts, log>>
\* one loop alone: the loop is left at line 282
LoopExit ==
    /\ LoopExitStep
    /\ UNCHANGED <<parseVars, sessVars, pipeVars, twinVars, idVars>>

(***************************************************************************)
(* run_full_pipeline.  Each run_with_evaluation it awaits is run by the     *)
(* actions above; the steps below are what the pipeline does between them.  *)
(***************************************************************************)
K_board == <<"b", "o", "a", "r", "d">>
K_subject == <<"s", "u", "b", "j", "e", "c", "t">>
K_duration_weeks == <<"d", "u", "r", "a", "t", "i", "o", "n", "_", "w", "e", "e", "k", "s">>
K_folder_id == <<"f", "o", "l", "d", "e", "r", "_", "i", "d">>
K_spreadsheet_id == <<"s", "p", "r", "e", "a", "d", "s", "h", "e", "e", "t", "_", "i", "d">>
K_week_number == <<"w", "e", "e", "k", "_", "n", "u", "m", "b", "e", "r">>
K_assessment_type == <<"a", "s", "s", "e", "s", "s", "m", "e", "n", "t", "_", "t", "y", "p", "e">>
K_teacher_info == <<"t", "e", "a", "c", "h", "e", "r", "_", "i", "n", "f", "o">>
K_final_summary == <<"f", "i", "n", "a", "l", "_", "s", "u", "m", "m", "a", "r", "y">>
\* max_iterations of the three loops (lines 316, 332, 343), and the slice of line 328
\* faulty variant: the planner loop is given one attempt more
PlannerBudget_more == 3 + 1
PlannerBudget == 3
LessonBudget == 2
AssessmentBudget == 2
LessonUnits == 2

\* teacher_input as the caller hands it over, with two durations
TeacherInputs ==
    { Obj((K_board :> Str(<<"S", "S", "C">>)) @@ (K_grade :> Int_(5))
          @@ (K_subject :> Str(<<"M", "a", "t", "h">>)) @@ (K_duration_weeks :> Int_(d))) :
        d \in {1, 4} }
\* lines 306-307
WithIds(ti) == Put(Put(ti, K_folder_id, Str(<<"FOLDER">>)), K_spreadsheet_id, Str(<<"SHEET">>))
\* curriculum[:2]
Weeks(cur) == SubSeq(cur.v, 1, IF Len(cur.v) < LessonUnits THEN Len(cur.v) ELSE LessonUnits)
\* line 329
WeekNum(week) == Get(week, K_week, Int_(1))
\* line 330
LessonInput(ti, cur, week) == Put(Put(ti, K_curriculum, cur), K_week_number, WeekNum(week))
\* line 342
AssessmentInput(ti, cur) ==
    Put(Put(Put(ti, K_curriculum, cur), K_week_number, Int_(1)),
        K_assessment_type, Str(<<"q", "u", "i", "z">>))
\* lines 351-361
ExportInput(plan, lessons, assessment, ti) ==
    Obj((K_curriculum :> plan.content)
        @@ (K_lessons :> Arr(lessons))
        @@ (K_assessments :> Arr(<<assessment.content>>))
        @@ (K_spreadsheet_id :> Str(<<"SHEET">>))
        @@ (K_teacher_info :>
              Obj((K_board :> ti.v[K_board]) @@ (K_grade :> ti.v[K_grade])
                  @@ (K_subject :> ti.v[K_subject]))))
\* The export agent's answers: a fenced summary, and prose
ExportLabels == {"summary", "prose"}
ExportText(l) ==
    CASE l = "summary" -> Fenced(json_dumps(Obj(K_final_summary :> Obj(EmptyMap))))
      [] l = "prose" -> <<"d", "o", "n", "e">>
ExportOutcomes == { [label |-> l, result |-> run_agent_result(ExportText(l))] : l \in ExportLabels }
ExportResult(l) == (CHOOSE o \in ExportOutcomes : o.label = l).result

\* faulty variant: the pipeline catches the exception and returns what it has
PipelineAfterError_swallow == "done"
\* lines 316-363: no statement of run_full_pipeline stands in a try block, so
\* an exception leaves it
PipelineAfterError == "raised"

InitPipeOff ==
    /\ ploc = "off"
    /\ teacher_input = Obj(EmptyMap)
    /\ results = EmptyMap
    /\ curriculum = None
    /\ all_lessons = <<>>
    /\ week_index = 0
    /\ export_input = None
    /\ perr = "none"

\* line 284: run_full_pipeline is called
InitPipe ==
    /\ ploc = "start"
    /\ teacher_input \in TeacherInputs
    /\ results = EmptyMap
    /\ curriculum = None
    /\ all_lessons = <<>>
    /\ week_index = 0
    /\ export_input = None
    /\ perr = "none"

\* lines 223-231: run_with_evaluation is entered
StartLoop(name, inp, max) ==
    /\ pc' = "loop"
    /\ generator_name' = name
    /\ input_data' = inp
    /\ max_iterations' = max
    /\ iteration' = 0
    /\ current_input' = inp
    /\ content' = None
    /\ evaluation' = None
    /\ result' = None
    /\ ret' = NotReturned
    /\ err' = "none"
    /\ gen_calls' = 0
    /\ eval_calls' = 0
    /\ gen_input' = None
    /\ eval_input' = None
    /\ gen_texts' = {}
    /\ eval_texts' = {}
    /\ UNCHANGED log

\* the call of run_with_evaluation is over and its locals are gone
EndLoop ==
    /\ pc' = "off"
    /\ generator_name' = "planner"
    /\ input_data' = Obj(EmptyMap)
    /\ max_iterations' = 0
    /\ iteration' = 0
    /\ current_input' = Obj(EmptyMap)
    /\ content' = None
    /\ evaluation' = None
    /\ result' = None
    /\ ret' = NotReturned
    /\ err' = "none"
    /\ gen_calls' = 0
    /\ eval_calls' = 0
    /\ gen_input' = None
    /\ eval_input' = None
    /\ gen_texts' = {}
    /\ eval_texts' = {}

\* an exception leaves run_full_pipeline
PipelineRaises(e) ==
    /\ ploc' = PipelineAfterError
    /\ perr' = e
    /\ EndLoop
    /\ UNCHANGED log

\* lines 328-332 and 335-343: the for loop goes on with element i of
\* curriculum[:2], or it is over and the assessment loop is entered
AfterLesson(i, cur, lessons, res) ==
    IF i < Len(Weeks(cur))
    THEN IF IsObj(Weeks(cur)[i + 1])
         THEN /\ StartLoop("lesson", LessonInput(teacher_input, cur, Weeks(cur)[i + 1]),
                           LessonBudget)
              /\ ploc' = "lessons"
              /\ results' = res
              /\ UNCHANGED perr
         ELSE \* week.get on a value that is no dict
              /\ PipelineRaises("AttributeError")
              /\ results' = res
    ELSE /\ StartLoop("assessment", AssessmentInput(teacher_input, cur), AssessmentBudget)
         /\ ploc' = "assessment"
         /\ results' = (K_lessons :> Arr(lessons)) @@ res
         /\ UNCHANGED perr

\* lines 306-316: the ids are added and the planner loop is entered
PipelineStart ==
    /\ ploc = "start"
    /\ teacher_input' = WithIds(teacher_input)
    /\ results' = EmptyMap
    /\ StartLoop("planner", WithIds(teacher_input), PlannerBudget)
    /\ ploc' = "planning"
    /\ UNCHANGED <<curriculum, all_lessons, week_index, export_input, perr>>
    /\ UNCHANGED <<parseVars, sessVars, twinVars, idVars>>

\* lines 316-332 (or -343): the planner loop has returned
PlanningDone ==
    /\ ploc = "planning" /\ pc = "returned"
    /\ IF ~IsObj(ret.content)
       THEN \* line 325: .get on a content that is no dict
            /\ PipelineRaises("AttributeError")
            /\ results' = (K_curriculum :> ret) @@ results
            /\ UNCHANGED <<curriculum, all_lessons, week_index>>
       ELSE LET cur == Get(ret.content, K_curriculum, Arr(<<>>)) IN
            IF cur.t # "arr"
            THEN \* line 328: the slice of a value that is no list
                 /\ PipelineRaises("TypeError")
                 /\ results' = (K_curriculum :> ret) @@ results
                 /\ curriculum' = cur
                 /\ all_lessons' = <<>>
                 /\ UNCHANGED week_index
            ELSE /\ curriculum' = cur
                 /\ all_lessons' = <<>>
                 /\ week_index' = 0
                 /\ AfterLesson(0, cur, <<>>, (K_curriculum :> ret) @@ results)
    /\ UNCHANGED <<teacher_input, export_input>>
    /\ UNCHANGED <<parseVars, sessVars, twinVars, idVars>>

\* lines 332-333, then 328-332 (or 335-343): a lesson loop has returned
LessonDone ==
    /\ ploc = "lessons" /\ pc = "returned"
    /\ IF ~IsObj(ret.content)
       THEN \* line 333: .get on a content that is no dict
            /\ PipelineRaises("AttributeError")
            /\ UNCHANGED <<results, all_lessons, week_index>>
       ELSE LET produced == Get(ret.content, K_lessons, Arr(<<>>)) IN
            IF produced.t # "arr"
            THEN \* line 333: extend with a value that is no list
                 /\ PipelineRaises("TypeError")
                 /\ UNCHANGED <<results, all_lessons, week_index>>
            ELSE /\ all_lessons' = all_lessons \o produced.v
                 /\ week_index' = week_index + 1
                 /\ AfterLesson(week_index + 1, curriculum, all_lessons \o produced.v, results)
    /\ UNCHANGED <<teacher_input, curriculum, export_input>>
    /\ UNCHANGED <<parseVars, sessVars, twinVars, idVars>>

\* lines 343-363: the assessment loop has returned and run_agent is called
\* for the export agent
AssessmentDone ==
    /\ ploc = "assessment" /\ pc = "returned"
    /\ results' = (K_assessments :> ret) @@ results
    /\ export_input' = ExportInput(results[K_curriculum], all_lessons, ret, teacher_input)
    /\ log' = Append(log, "export")
    /\ ploc' = "export"
    /\ EndLoop
    /\ UNCHANGED <<teacher_input, curriculum, all_lessons, week_index, perr>>
    /\ UNCHANGED <<parseVars, sessVars, twinVars, idVars>>

\* lines 363-370: the export agent's run_agent returns, and so does the pipeline
ExportReturns ==
    /\ ploc = "export"
    /\ \E l \in ExportLabels : results' = (<<"export">> :> ExportResult(l)) @@ results
    /\ ploc' = "done"
    /\ UNCHANGED <<teacher_input, curriculum, all_lessons, week_index, export_input, perr>>
    /\ UNCHANGED <<parseVars, loopVars, sessVars, twinVars, idVars>>

\* line 363: the export agent's run_agent raises
ExportRaises ==
    /\ ploc = "export"
    /\ \E e \in AgentErrors : ploc' = PipelineAfterError /\ perr' = e
    /\ UNCHANGED loopVars
    /\ UNCHANGED <<teacher_input, results, curriculum, all_lessons, week_index, export_input>>
    /\ UNCHANGED <<parseVars, sessVars, twinVars, idVars>>

\* lines 316, 332, 343: the exception that left run_with_evaluation leaves
\* run_full_pipeline
StageRaises ==
    /\ ploc \in {"planning", "lessons", "assessment"}
    /\ pc = "raised"
    /\ PipelineRaises(err)
    /\ UNCHANGED <<teacher_input, results, curriculum, all_lessons, week_index, export_input>>
    /\ UNCHANGED <<parseVars, sessVars, twinVars, idVars>>

(***************************************************************************)
(* _get_or_create_session.  Each await of the session service is one step; *)
(* the service may answer a lookup with the session, with None or with an  *)
(* exception, and a creation with a session, with None or an exception.    *)
(***************************************************************************)
MaxCalls == 2
Callers == {"t1", "t2"}
SessionKeys ==
    { [app_name |-> "TutoBot_planner", session_id |-> s, user_id |-> "teacher_1"] :
        s \in {"s1", "s2"} }

\* None, as the value of the local session
NoSession == [none |-> TRUE]

InitSessOff ==
    /\ store = {}
    /\ created = [k \in SessionKeys |-> 0]
    /\ spc = [c \in Callers |-> "idle"]
    /\ skey = [c \in Callers |-> CHOOSE k \in SessionKeys : TRUE]
    /\ session = [c \in Callers |-> NoSession]
    /\ looked_up = [c \in Callers |-> "pending"]
    /\ creates = [c \in Callers |-> <<>>]
    /\ serr = [c \in Callers |-> "none"]
    /\ calls = [c \in Callers |-> 0]
InitSess == InitSessOff

\* faulty variant: the exception of get_session leaves the call
OnLookupError_propagate == "failed"
\* line 154: where an exception of get_session leads
OnLookupError == "create_except"
\* line 158: a session that is None raises RuntimeError
AfterCreate(c, s) ==
    IF s = NoSession
    THEN /\ spc' = [spc EXCEPT ![c] = "failed"]
         /\ serr' = [serr EXCEPT ![c] = "RuntimeError"]
    ELSE /\ spc' = [spc EXCEPT ![c] = "done"]
         /\ serr' = serr

\* line 148: a call starts
Call(c) ==
    /\ spc[c] \in {"idle", "done", "failed"}
    /\ calls[c] < MaxCalls
    /\ calls' = [calls EXCEPT ![c] = @ + 1]
    /\ \E k \in SessionKeys : skey' = [skey EXCEPT ![c] = k]
    /\ spc' = [spc EXCEPT ![c] = "get"]
    /\ session' = [session EXCEPT ![c] = NoSession]
    /\ looked_up' = [looked_up EXCEPT ![c] = "pending"]
    /\ creates' = [creates EXCEPT ![c] = <<>>]
    /\ serr' = [serr EXCEPT ![c] = "none"]
    /\ UNCHANGED <<store, created>>
    /\ UNCHANGED <<parseVars, loopVars, pipeVars, twinVars, idVars>>

\* lines 151-152 and 158-160: get_session returns
GetSession(c) ==
    /\ spc[c] = "get"
    /\ IF skey[c] \in store
       THEN /\ session' = [session EXCEPT ![c] = skey[c]]
            /\ looked_up' = [looked_up EXCEPT ![c] = "found"]
            /\ spc' = [spc EXCEPT ![c] = "done"]
       ELSE /\ session' = [session EXCEPT ![c] = NoSession]
            /\ looked_up' = [looked_up EXCEPT ![c] = "missing"]
            /\ spc' = [spc EXCEPT ![c] = "create_try"]
    /\ UNCHANGED <<store, created, skey, creates, serr, calls>>
    /\ UNCHANGED <<parseVars, loopVars, pipeVars, twinVars, idVars>>

\* lines 151 and 154-156: get_session raises
GetSessionRaises(c) ==
    /\ spc[c] = "get"
    /\ looked_up' = [looked_up EXCEPT ![c] = "raised"]
    /\ spc' = [spc EXCEPT ![c] = OnLookupError]
    /\ serr' = [serr EXCEPT ![c] = IF OnLookupError = "failed" THEN "LookupError" ELSE "none"]
    /\ UNCHANGED <<store, created, skey, session, creates, calls>>
    /\ UNCHANGED <<parseVars, loopVars, pipeVars, twinVars, idVars>>

\* line 153, then 158-160: create_session inside the try returns
CreateInTry(c) ==
    /\ spc[c] = "create_try"
    /\ creates' = [creates EXCEPT ![c] = Append(@, skey[c])]
    /\ \E s \in {skey[c], NoSession} :
         /\ session' = [session EXCEPT ![c] = s]
         /\ store' = IF s = NoSession THEN store ELSE store \cup {skey[c]}
         /\ created' = IF s = NoSession THEN created ELSE [created EXCEPT ![skey[c]] = @ + 1]
         /\ AfterCreate(c, s)
    /\ UNCHANGED <<skey, looked_up, calls>>
    /\ UNCHANGED <<parseVars, loopVars, pipeVars, twinVars, idVars>>

\* lines 153-156: create_session inside the try raises, the handler takes over
CreateInTryRaises(c) ==
    /\ spc[c] = "create_try"
    /\ creates' = [creates EXCEPT ![c] = Append(@, skey[c])]
    /\ spc' = [spc EXCEPT ![c] = "create_except"]
    /\ UNCHANGED <<store, created, skey, session, looked_up, serr, calls>>
    /\ UNCHANGED <<parseVars, loopVars, pipeVars, twinVars, idVars>>

\* line 157, then 158-160: create_session inside the handler returns
CreateInExcept(c) ==
    /\ spc[c] = "create_except"
    /\ creates' = [creates EXCEPT ![c] = Append(@, skey[c])]
    /\ \E s \in {skey[c], NoSession} :
         /\ session' = [session EXCEPT ![c] = s]
         /\ store' = IF s = NoSession THEN store ELSE store \cup {skey[c]}
         /\ created' = IF s = NoSession THEN created ELSE [created EXCEPT ![skey[c]] = @ + 1]
         /\ AfterCreate(c, s)
    /\ UNCHANGED <<skey, looked_up, calls>>
    /\ UNCHANGED <<parseVars, loopVars, pipeVars, twinVars, idVars>>

\* line 157: create_session inside the handler raises, and the exception leaves the call
CreateInExceptRaises(c) ==
    /\ spc[c] = "create_except"
    /\ creates' = [creates EXCEPT ![c] = Append(@, skey[c])]
    /\ spc' = [spc EXCEPT ![c] = "failed"]
    /\ serr' = [serr EXCEPT ![c] = "CreateError"]
    /\ UNCHANGED <<store, created, skey, session, looked_up, calls>>
    /\ UNCHANGED <<parseVars, loopVars, pipeVars, twinVars, idVars>>

(***************************************************************************)
(* Two invocations of run_with_evaluation side by side.  The first is the  *)
(* loop above; the second is given the same arguments, the same generator  *)
(* outputs and the same verdicts with another quality_score.               *)
(***************************************************************************)
TwinScores == {0, 69, 70, 100}
\* the verdict with its quality_score replaced
Rescore(ev, n) == IF IsObj(ev) THEN Put(ev, K_quality_score, Int_(n)) ELSE ev

InitTwinOff ==
    /\ pc2 = "off"
    /\ iteration2 = 0
    /\ current_input2 = Obj(EmptyMap)
    /\ ret2 = NotReturned
    /\ log2 = <<>>

\* lines 223-229, for the second invocation
InitTwin ==
    /\ pc2 = "loop"
    /\ iteration2 = 0
    /\ current_input2 = input_data
    /\ ret2 = NotReturned
    /\ log2 = <<>>

\* lines 231-240 in the second invocation
Generate2 ==
    IF pc2 = "loop" /\ ContinueLoop(iteration2, max_iterations)
    THEN /\ iteration2' = NextIteration(iteration2)
         /\ log2' = Append(log2, generator_name)
         /\ pc2' = "evaluate"
         /\ UNCHANGED <<current_input2, ret2>>
    ELSE UNCHANGED twinVars

\* lines 253-280 in the second invocation, on the verdict ev
Evaluate2(c, ev) ==
    IF pc2 # "evaluate"
    THEN UNCHANGED twinVars
    ELSE /\ log2' = Append(log2, "evaluator")
         /\ UNCHANGED iteration2
         /\ IF ~IsObj(ev)
            THEN pc2' = "raised" /\ UNCHANGED <<current_input2, ret2>>
            ELSE CASE Decide(StatusOf(ev), iteration2, max_iterations) = "approved" ->
                        /\ ret2' = ApprovedResult(c, ev, iteration2)
                        /\ pc2' = "returned"
                        /\ UNCHANGED current_input2
                   [] Decide(StatusOf(ev), iteration2, max_iterations) = "retry" ->
                        /\ current_input2' = NextInput(current_input2, FeedbackOf(ev))
                        /\ pc2' = "loop"
                        /\ UNCHANGED ret2
                   [] Decide(StatusOf(ev), iteration2, max_iterations) = "exhausted" ->
                        /\ ret2' = ExhaustedResult(c, ev, iteration2)
                        /\ pc2' = "returned"
                        /\ UNCHANGED current_input2

\* both invocations are given the same generator output
TwinGenerate ==
    /\ GenerateStep
    /\ Generate2
    /\ UNCHANGED <<parseVars, sessVars, pipeVars, idVars>>

\* both invocations are given the evaluator output, the second with another
\* quality_score in the verdict
TwinEvaluate ==
    /\ EvaluateStep
    /\ \E n \in TwinScores : Evaluate2(content, Rescore(evaluation', n))
    /\ UNCHANGED <<parseVars, sessVars, pipeVars, idVars>>

\* lines 231 and 282 in both invocations
TwinLoopExit ==
    /\ LoopExitStep
    /\ IF pc2 = "loop" /\ ~ContinueLoop(iteration2, max_iterations)
       THEN /\ ret2' = FallThroughResult(None, None, iteration2)
            /\ pc2' = "returned"
            /\ UNCHANGED <<iteration2, current_input2, log2>>
       ELSE UNCHANGED twinVars
    /\ UNCHANGED <<parseVars, sessVars, pipeVars, idVars>>

(***************************************************************************)
(* Default session ids.  run_agent, called without a session_id, names the *)
(* session after the agent and id(input_data), the address of the input    *)
(* object.  An address is unique among the objects alive at the same time; *)
(* an object created after another was freed may be given its address.     *)
(***************************************************************************)
MaxAddr == 4
MaxLoops == 2
Addrs == 1 .. MaxAddr
NoAddr == 0
EVALUATOR == "evaluator"
IdAgents == GeneratorNames \cup {EVALUATOR}
\* session_id = f"{agent_name}_{id(input_data)}", under the agent's app_name
DefaultSessionId(agent, addr) == <<agent, addr>>
IdKeys == { DefaultSessionId(a, d) : a \in IdAgents, d \in Addrs }
\* what create_session does for an id the service already holds
CreateOutcomes == {"replaced", "refused"}

\* one run_agent call under the key k: _get_or_create_session, then one turn
\* of run_async in the session.  fails: get_session raises
RunAgentCall(st, k, turn, fails, out) ==
    LET exists == st[k] # <<>>
    IN IF ~fails
       THEN [ok |-> TRUE, store |-> [st EXCEPT ![k] = Append(@, turn)],
             made |-> ~exists, found |-> exists]
       ELSE IF exists /\ out = "refused"
       THEN [ok |-> FALSE, store |-> st, made |-> FALSE, found |-> FALSE]
       ELSE [ok |-> TRUE, store |-> [st EXCEPT ![k] = <<turn>>],
             made |-> TRUE, found |-> FALSE]

InitIdOff ==
    /\ ipc = "off"
    /\ iloop = 0
    /\ iiter = 0
    /\ igen = "planner"
    /\ caddr = NoAddr
    /\ eaddr = NoAddr
    /\ isess = [k \in IdKeys |-> <<>>]
    /\ gen_trace = <<>>

InitId ==
    /\ ipc = "idle"
    /\ iloop = 0
    /\ iiter = 0
    /\ igen = "planner"
    /\ caddr = NoAddr
    /\ eaddr = NoAddr
    /\ isess = [k \in IdKeys |-> <<>>]
    /\ gen_trace = <<>>

\* lines 223-229: current_input = input_data.copy() is a new object
IdStartLoop ==
    /\ ipc \in {"idle", "done"}
    /\ iloop < MaxLoops
    /\ iloop' = iloop + 1
    /\ iiter' = 0
    /\ \E g \in GeneratorNames : igen' = g
    /\ \E a \in Addrs : caddr' = a
    /\ eaddr' = NoAddr
    /\ gen_trace' = <<>>
    /\ ipc' = "loop"
    /\ UNCHANGED isess
    /\ UNCHANGED <<parseVars, loopVars, sessVars, pipeVars, twinVars>>

\* lines 231-237: the generator runs on current_input
IdGenerate ==
    /\ ipc = "loop"
    /\ ContinueLoop(iiter, MaxIter)
    /\ iiter' = NextIteration(iiter)
    /\ \E fails \in BOOLEAN, out \in CreateOutcomes :
         LET k == DefaultSessionId(igen, caddr)
             c == RunAgentCall(isess, k, [loop |-> iloop, iter |-> iiter'], fails, out)
         IN /\ isess' = c.store
            /\ IF c.ok
               THEN /\ gen_trace' = Append(gen_trace, [key |-> k, made |-> c.made,
                                                        found |-> c.found,
                                                        turns |-> Len(c.store[k])])
                    /\ ipc' = "evaluate"
               ELSE /\ ipc' = "raised"
                    /\ UNCHANGED gen_trace
    /\ UNCHANGED <<iloop, igen, caddr, eaddr>>
    /\ UNCHANGED <<parseVars, loopVars, sessVars, pipeVars, twinVars>>

\* lines 246-280: eval_input is a new dict, built while the one of the
\* iteration before is still bound; the evaluator runs on it; the locals go
\* when the invocation returns
IdEvaluate ==
    /\ ipc = "evaluate"
    /\ \E a \in Addrs \ {caddr, eaddr}, fails \in BOOLEAN, out \in CreateOutcomes,
          status \in {APPROVED, REJECTED} :
         LET k == DefaultSessionId(EVALUATOR, a)
             c == RunAgentCall(isess, k, [loop |-> iloop, iter |-> iiter], fails, out)
             d == Decide(Str(status), iiter, MaxIter)
         IN /\ isess' = c.store
            /\ IF ~c.ok
               THEN ipc' = "raised" /\ caddr' = NoAddr /\ eaddr' = NoAddr
               ELSE IF d = "retry"
               THEN ipc' = "loop" /\ eaddr' = a /\ UNCHANGED caddr
               ELSE ipc' = "done" /\ caddr' = NoAddr /\ eaddr' = NoAddr
    /\ UNCHANGED <<iloop, iiter, igen, gen_trace>>
    /\ UNCHANGED <<parseVars, loopVars, sessVars, pipeVars, twinVars>>

(***************************************************************************)
(* Specifications.                                                         *)
(***************************************************************************)
NextParse == RunAgentParse
InitP == InitParse /\ InitLoopOff /\ InitSessOff /\ InitPipeOff /\ InitTwinOff /\ InitIdOff
SpecParse == InitP /\ [][NextParse]_vars

Next == Generate \/ GenerateRaises \/ Evaluate \/ EvaluateRaises \/ LoopExit
Init == InitLoop /\ InitParseOff /\ InitSessOff /\ InitPipeOff /\ InitTwinOff /\ InitIdOff
Spec == Init /\ [][Next]_vars
\* every agent invocation returns or raises, and the coroutine is resumed
FairSpec == Spec /\ WF_vars(Next)

NextSession ==
    \E c \in Callers :
        \/ Call(c)
        \/ GetSession(c)
        \/ GetSessionRaises(c)
        \/ CreateInTry(c)
        \/ CreateInTryRaises(c)
        \/ CreateInExcept(c)
        \/ CreateInExceptRaises(c)
InitS == InitSess /\ InitLoopOff /\ InitParseOff /\ InitPipeOff /\ InitTwinOff /\ InitIdOff
SpecSession == InitS /\ [][NextSession]_vars

\* The loops of the pipeline have max_iterations >= 1, so the loop condition of
\* line 231 never fails in them and line 282 is not reached
NextPipeline ==
    \/ PipelineStart
    \/ Generate \/ GenerateRaises \/ Evaluate \/ EvaluateRaises
    \/ PlanningDone \/ LessonDone \/ AssessmentDone
    \/ ExportReturns \/ ExportRaises \/ StageRaises
InitF == InitPipe /\ InitLoopOff /\ InitParseOff /\ InitSessOff /\ InitTwinOff /\ InitIdOff
SpecPipeline == InitF /\ [][NextPipeline]_vars

NextTwin == TwinGenerate \/ TwinEvaluate \/ TwinLoopExit
InitT == InitLoop /\ InitTwin /\ InitParseOff /\ InitSessOff /\ InitPipeOff /\ InitIdOff
SpecTwin == InitT /\ [][NextTwin]_vars

NextIdentity == IdStartLoop \/ IdGenerate \/ IdEvaluate
InitI == InitId /\ InitParseOff /\ InitLoopOff /\ InitSessOff /\ InitPipeOff /\ InitTwinOff
SpecIdentity == InitI /\ [][NextIdentity]_vars

(***************************************************************************)
(* Properties of run_agent and parse_json (checked under SpecParse).       *)
(***************************************************************************)
HasFence(s) == Occurrences(s, Fence, 0) # {}
IsSentinelOf(r, text) ==
    /\ IsObj(r)
    /\ DOMAIN r.v = {K_error, K_raw_output}
    /\ r.v[K_raw_output] = Str(text)

\* C7: when parse_json cannot recover a record, run_agent returns the sentinel
\* {error, raw_output} whose raw_output is the whole output text, unchanged;
\* when it can, run_agent returns the parsed structure itself.
C7_SentinelKeepsRawOutput ==
    ppc = "done" =>
        /\ ~parsed.ok => IsSentinelOf(agent_result, output_text)
        /\ parsed.ok => agent_result = parsed.val
\* An extraction failure on a text with fences, a body and prose around it
C7_Witness ==
    /\ ppc = "done"
    /\ ~parsed.ok
    /\ parts.open /\ parts.close /\ parts.p1 # <<>> /\ parts.p2 # <<>>
    /\ parts.body.rec = None
    /\ IsSentinelOf(agent_result, output_text)

\* C8 (as stated): on a text without any fence whose span from the first { to
\* the last } is a JSON object, parse_json returns that object.
C8_NoFenceWholeText ==
    (/\ ppc = "done"
     /\ ~HasFence(output_text)
     /\ json_loads(Strip(BraceSpan(output_text))).ok)
        => parsed = json_loads(Strip(BraceSpan(output_text)))

\* C9 (as stated): prose, then a record serialized inside a fenced block, then
\* prose, is extracted to that record.
C9_RoundTripAnyRecord ==
    (/\ ppc = "done"
     /\ parts.open /\ parts.close
     /\ parts.body.rec # None)
        => parsed = [ok |-> TRUE, val |-> parts.body.rec]
\* C9 (amended): the same, for a record whose serialization holds no triple
\* backtick and leading prose that holds no triple backtick.
C9_RoundTripFenceFree ==
    (/\ ppc = "done"
     /\ parts.open /\ parts.close
     /\ parts.body.rec # None
     /\ ~HasFence(parts.body.text)
     /\ ~HasFence(parts.p1))
        => parsed = [ok |-> TRUE, val |-> parts.body.rec]
\* A nested record with braces in a string, prose before and fenced prose after
C9_Witness ==
    /\ ppc = "done"
    /\ parts.open /\ parts.close
    /\ parts.p1 = <<Backtick, Backtick>>
    /\ HasFence(parts.p2)
    /\ parts.body.rec = Obj(<<"a">> :> Obj(<<"b">> :> Arr(<<Int_(1), Obj(<<"c">> :> Str(<<"}">>))>>)))
    /\ parsed.ok /\ parsed.val = parts.body.rec


(***************************************************************************)
(* Properties of run_with_evaluation (checked under Spec and FairSpec).    *)
(***************************************************************************)
Terminated == pc \in {"returned", "raised"}
IsApproving(ev) == IsObj(ev) /\ StatusOf(ev) = Str(APPROVED)
\* an evaluator answer seen so far carried the status APPROVED
ApprovedSeen == \E l \in eval_texts : IsApproving(VerdictOf(EvalResult(l)))
\* every evaluator answer so far carried the status APPROVED
OnlyApprovedSeen ==
    eval_texts # {} /\ \A l \in eval_texts : IsApproving(VerdictOf(EvalResult(l)))
HasWarning(r) == "warning" \in DOMAIN r

\* C1: for max_iterations >= 1 the loop makes at most max_iterations generator
\* and at most max_iterations evaluator invocations, and it terminates.
C1_BoundedRoundTrips ==
    /\ [](max_iterations >= 1 =>
            gen_calls <= max_iterations /\ eval_calls <= max_iterations)
    /\ <>Terminated
\* A run that used its whole budget of MaxIter round trips
C1_Witness ==
    /\ pc = "returned"
    /\ max_iterations = MaxIter
    /\ gen_calls = max_iterations /\ eval_calls = max_iterations

\* C2: once an APPROVED verdict has been seen the loop has returned, with the
\* content and the verdict of that attempt, and no agent was invoked after it.
C2_ApprovalEndsLoop ==
    ApprovedSeen =>
        /\ pc = "returned"
        /\ IsApproving(evaluation)
        /\ ret = [content |-> ContentOf(generator_name, result),
                  evaluation |-> evaluation, iterations |-> iteration]
        /\ gen_calls = iteration /\ eval_calls = iteration
\* An approval on the second attempt of three
C2_Witness ==
    /\ ApprovedSeen
    /\ pc = "returned"
    /\ iteration = 2 /\ max_iterations = 3
    /\ gen_calls = 2 /\ eval_calls = 2

\* C3: the generator input of an attempt after the first holds, under
\* previous_feedback, exactly the feedback of the attempt before it.
C3_FeedbackPropagates ==
    (pc = "evaluate" /\ iteration >= 2) =>
        /\ HasKey(gen_input, K_previous_feedback)
        /\ gen_input.v[K_previous_feedback] = FeedbackOf(evaluation)
\* The third attempt, after two rejections with different feedback, of an input
\* that came with a previous_feedback of its own
C3_Witness ==
    /\ pc = "evaluate" /\ iteration = 3
    /\ HasKey(input_data, K_previous_feedback)
    /\ {"rejected_flat", "rejected_wrapped"} \subseteq eval_texts
    /\ gen_input.v[K_previous_feedback] = Str(AddY)

\* C4: an approval on the first attempt gives iterations = 1, no warning, one
\* generator invocation, and a generator input to which nothing was added.
C4_FirstAttemptApproved ==
    (Terminated /\ OnlyApprovedSeen) =>
        /\ pc = "returned"
        /\ ret.iterations = 1
        /\ ~HasWarning(ret)
        /\ gen_calls = 1
        /\ gen_input = input_data
C4_Witness ==
    /\ pc = "returned" /\ OnlyApprovedSeen
    /\ max_iterations = 3 /\ ret.iterations = 1
    /\ ~HasKey(gen_input, K_previous_feedback)

\* C5 (as stated): with the generator always answering {"x":1} and the evaluator
\* always rejecting, the result has iterations = max_iterations, a warning, and
\* the record {"x": 1} as content.
C5_ExhaustedKeepsContent ==
    (/\ pc = "returned"
     /\ max_iterations >= 1
     /\ gen_texts = {"bare"}
     /\ eval_texts # {} /\ eval_texts \subseteq RejectingLabels)
        => /\ ret.iterations = max_iterations
           /\ HasWarning(ret)
           /\ ret.content = X1

\* C6: for max_iterations >= 1 a returned result has a warning exactly if the
\* verdict of its last attempt was not APPROVED, and once the last attempt of
\* the budget has been evaluated without an exception the loop has returned.
C6_WarningIffNotApproved ==
    /\ (pc = "returned" /\ max_iterations >= 1) =>
          (HasWarning(ret) <=> ~IsApproving(evaluation))
    /\ (max_iterations >= 1 /\ eval_calls = max_iterations /\ err = "none") =>
          pc = "returned"
\* A budget of two spent on two rejections
C6_Witness ==
    /\ pc = "returned"
    /\ max_iterations = 2 /\ iteration = 2
    /\ HasWarning(ret)
    /\ ~IsApproving(evaluation)


\* C12: once an agent invocation of the loop has raised, run_with_evaluation
\* has raised too: it returned no result, and from then on it invokes no agent.
C12_AgentErrorPropagates ==
    /\ [](err \in AgentErrors => pc = "raised" /\ ret = NotReturned)
    /\ [][(err \in AgentErrors) => (UNCHANGED <<pc, ret, gen_calls, eval_calls>>)]_vars
\* The evaluator invocation of the second attempt failed, after a rejection
C12_Witness ==
    /\ pc = "raised" /\ err = "TransportError"
    /\ iteration = 2 /\ gen_calls = 2 /\ eval_calls = 2
    /\ eval_texts \cap RejectingLabels # {}
    /\ ret = NotReturned

NoStatus(ev) == IsObj(ev) /\ ~HasKey(ev, K_status)
\* C13: a verdict without a status field never ends the loop as approved: with
\* attempts left the loop retries with the feedback of that verdict, on the
\* last attempt it returns with the warning, as it does for REJECTED.
C13_MissingStatusIsRejected ==
    (pc \in {"loop", "returned"} /\ eval_calls >= 1 /\ NoStatus(evaluation)) =>
        /\ pc = "returned" <=> iteration = max_iterations
        /\ pc = "returned" => HasWarning(ret) /\ ret.iterations = max_iterations
        /\ pc = "loop" => current_input = NextInput(gen_input, FeedbackOf(evaluation))
\* A budget of two that ended on a verdict holding only a quality_score of 95
C13_Witness ==
    /\ pc = "returned" /\ max_iterations = 2
    /\ "no_status" \in eval_texts
    /\ NoStatus(evaluation) /\ ScoreOf(evaluation) = Int_(95)
    /\ HasWarning(ret)

IsVerdict(ev) ==
    /\ IsObj(ev)
    /\ {K_status, K_quality_score, K_feedback} \subseteq DOMAIN ev.v
    /\ ev.v[K_status] \in {Str(APPROVED), Str(REJECTED)}
DefaultVerdict == VerdictRec(REJECTED, 0, NoFeedbackProvided)
\* C14 (as stated): for max_iterations >= 1 the evaluation of a returned result
\* holds a status APPROVED or REJECTED, a quality_score and a feedback, and it
\* is the default verdict when the output of the evaluator did not hold them.
C14_EvaluationIsVerdict ==
    (pc = "returned" /\ max_iterations >= 1) =>
        /\ IsVerdict(ret.evaluation)
        /\ ~IsVerdict(evaluation) => ret.evaluation = DefaultVerdict

\* C15 (as stated): the only exceptions that leave run_with_evaluation are those
\* of an agent invocation; no output of the evaluator makes it raise.
C15_EvaluatorOutputNeverRaises ==
    /\ err \in {"none"} \cup AgentErrors
    /\ (pc = "raised") => err \in AgentErrors

\* C16 (as stated): a returned result whose evaluation has the status APPROVED
\* has a quality_score of at least QUALITY_THRESHOLD.
C16_ApprovedMeetsThreshold ==
    (pc = "returned" /\ IsObj(ret.evaluation)
        /\ Get(ret.evaluation, K_status, None) = Str(APPROVED)) =>
        /\ ScoreOf(ret.evaluation).t = "int"
        /\ ScoreOf(ret.evaluation).v >= QUALITY_THRESHOLD


\* C24: the evaluator request of every attempt holds the name and the
\* instruction of the generator, the output of the generator of that attempt,
\* and the input the caller passed: after a rejection the generator input holds
\* the injected previous_feedback, generator_inputs does not.
C24_EvaluatorSeesOriginalInput ==
    (eval_calls >= 1 /\ eval_calls = iteration) =>
        /\ input_data \in Inputs
        /\ eval_input.v[K_generator_inputs] = input_data
        /\ eval_input.v[K_generator_output] = result
        /\ eval_input.v[K_original_instruction] = instruction(generator_name)
        /\ eval_input.v[K_generator_name] = Str(<<generator_name>>)
        /\ iteration >= 2 =>
             /\ HasKey(gen_input, K_previous_feedback)
             /\ gen_input.v[K_previous_feedback] # Get(input_data, K_previous_feedback, None)
\* The third evaluation, of an input that came without previous_feedback
C24_Witness ==
    /\ eval_calls = 3 /\ iteration = 3
    /\ ~HasKey(input_data, K_previous_feedback)
    /\ HasKey(gen_input, K_previous_feedback)
    /\ ~HasKey(eval_input.v[K_generator_inputs], K_previous_feedback)
    /\ eval_input.v[K_generator_output] = result

\* C25 (as stated): the content of a returned result is the record run_agent
\* returned for the generator on the last attempt, the one the evaluator was
\* given as generator_output.
C25_ContentIsGeneratorOutput ==
    (pc = "returned" /\ max_iterations >= 1) =>
        /\ ret.content = result
        /\ ret.content = eval_input.v[K_generator_output]

\* C26: with max_iterations <= 0 no agent is invoked, and what is returned has
\* iterations 0, content None, evaluation None and no warning.
C26_NoBudgetNoInvocation ==
    max_iterations <= 0 =>
        /\ gen_calls = 0 /\ eval_calls = 0 /\ log = <<>>
        /\ pc \in {"loop", "returned"}
        /\ pc = "returned" =>
             /\ ret = [content |-> None, evaluation |-> None, iterations |-> 0]
             /\ ~HasWarning(ret)
\* A negative budget
C26_Witness ==
    /\ max_iterations = -1
    /\ pc = "returned"
    /\ ret.iterations = 0 /\ ret.content = None /\ ~HasWarning(ret)


(***************************************************************************)
(* Properties of two invocations side by side (checked under SpecTwin).    *)
(***************************************************************************)
\* C21: two invocations given the same generator outputs and verdicts that
\* differ only in quality_score are at the same place after every step, have
\* invoked the same agents in the same order with the same generator inputs,
\* and return results with the same iterations, the same content and a warning
\* in both or in neither.
C21_ScoreDoesNotDecide ==
    /\ pc2 = pc
    /\ iteration2 = iteration
    /\ log2 = log
    /\ current_input2 = current_input
    /\ pc = "returned" =>
         /\ ret2.iterations = ret.iterations
         /\ ret2.content = ret.content
         /\ HasWarning(ret2) <=> HasWarning(ret)
\* Two attempts, rejected with score 10 in one invocation and 100 in the other
C21_Witness ==
    /\ pc = "returned" /\ pc2 = "returned"
    /\ max_iterations = 2 /\ ret.iterations = 2
    /\ ScoreOf(ret.evaluation) = Int_(10)
    /\ ScoreOf(ret2.evaluation) = Int_(100)
    /\ HasWarning(ret) /\ HasWarning(ret2)


(***************************************************************************)
(* Properties of the default session ids (checked under SpecIdentity).     *)
(***************************************************************************)
\* C22: no session is used by more than one logical task: the turns of a
\* session all belong to one invocation of run_with_evaluation and, in a
\* session of the evaluator, to one iteration.
C22_NoSessionSharedAcrossTasks ==
    \A k \in IdKeys : \A i, j \in 1 .. Len(isess[k]) :
        /\ isess[k][i].loop = isess[k][j].loop
        /\ k[1] = EVALUATOR => isess[k][i].iter = isess[k][j].iter

\* C23: within one invocation all generator attempts use one session key, the
\* session is created on the first attempt and found by every later one, and
\* it holds one turn per attempt.
C23_OneGeneratorSessionPerLoop ==
    \A i \in 1 .. Len(gen_trace) :
        /\ gen_trace[i].key = gen_trace[1].key
        /\ gen_trace[i].turns = i
        /\ i = 1 => gen_trace[i].made /\ ~gen_trace[i].found
        /\ i > 1 => gen_trace[i].found /\ ~gen_trace[i].made

(***************************************************************************)
(* Properties of run_full_pipeline (checked under SpecPipeline).           *)
(***************************************************************************)
Rank(a) ==
    CASE a = "planner" -> 1
      [] a = "lesson" -> 2
      [] a = "assessment" -> 3
      [] a = "export" -> 4
Count(sq, a) == Cardinality({ i \in DOMAIN sq : sq[i] = a })
IsSentinel(x) == IsObj(x) /\ DOMAIN x.v = {K_error, K_raw_output}

\* C17: the agents are invoked in the order planner loop, lesson loops,
\* assessment loop, export: every generator invocation is followed by one of
\* the evaluator before anything else is invoked, no agent of an earlier stage
\* is invoked after one of a later stage, the planner is invoked at most 3
\* times, the lesson agent at most twice in each lesson loop, the assessment
\* agent at most twice, and the export agent once, as the last invocation.
C17_FixedStageOrder ==
    /\ \A i \in DOMAIN log :
         /\ log[i] = "evaluator" => (i > 1 /\ log[i - 1] \in GeneratorNames)
         /\ (log[i] \in GeneratorNames /\ i < Len(log)) => log[i + 1] = "evaluator"
         /\ log[i] = "export" => i = Len(log)
    /\ \A i, j \in DOMAIN log :
         (i < j /\ log[i] # "evaluator" /\ log[j] # "evaluator") => Rank(log[i]) <= Rank(log[j])
    /\ Count(log, "planner") <= 3
    /\ Count(log, "assessment") <= 2
    /\ Count(log, "export") <= 1
    /\ ploc = "lessons" =>
         (gen_calls <= 2 /\ Count(log, "lesson") <= 2 * week_index + gen_calls)
    /\ ploc \in {"assessment", "export", "done"} => Count(log, "lesson") <= 2 * week_index
    /\ ploc = "done" =>
         /\ Count(log, "export") = 1
         /\ Count(log, "planner") >= 1 /\ Count(log, "assessment") >= 1
\* A run that used every budget: 3 planner, 2 + 2 lesson and 2 assessment
\* attempts, each evaluated, then the export
C17_Witness ==
    /\ ploc = "done"
    /\ Count(log, "planner") = 3 /\ Count(log, "lesson") = 4
    /\ Count(log, "assessment") = 2 /\ Count(log, "evaluator") = 9
    /\ log[Len(log)] = "export"

\* C18 (as stated): once the planning stage has ended with the documented
\* output, a curriculum of the three units, the pipeline fails only if an agent
\* invocation does; it runs the lesson loop for the first two units, each with
\* the week of its unit as week_number, and then goes on to the assessment.
C18_FirstTwoUnitsGetLessons ==
    (K_curriculum \in DOMAIN results
        /\ results[K_curriculum].content = ContentOf("planner", Obj(K_curriculum :> Arr(Units)))) =>
        /\ perr \in {"none"} \cup AgentErrors
        /\ ploc = "lessons" =>
             /\ week_index < 2
             /\ input_data.v[K_week_number] = Units[week_index + 1].v[K_week]
        /\ ploc \in {"assessment", "export", "done"} => week_index = 2

\* C19: once an exception has left a stage the pipeline has raised: it invokes
\* no agent afterwards and it never returns its results.
C19_FailureAbortsPipeline ==
    /\ [](perr # "none" => ploc = "raised")
    /\ [][(pc = "raised" \/ perr # "none") => (log' = log /\ ploc' # "done")]_vars
\* The second lesson loop failed: no assessment, no export
C19_Witness ==
    /\ ploc = "raised" /\ perr = "TransportError"
    /\ week_index = 1
    /\ Count(log, "lesson") >= 2
    /\ Count(log, "assessment") = 0 /\ Count(log, "export") = 0

\* C20 (as stated): the input of the export agent holds no sentinel as its
\* curriculum or among its lessons and assessments, and the input of a lesson
\* or assessment loop holds none as its curriculum.
C20_SentinelNeverContent ==
    /\ export_input.t = "obj" =>
         /\ ~IsSentinel(export_input.v[K_curriculum])
         /\ \A i \in DOMAIN export_input.v[K_lessons].v :
              ~IsSentinel(export_input.v[K_lessons].v[i])
         /\ \A i \in DOMAIN export_input.v[K_assessments].v :
              ~IsSentinel(export_input.v[K_assessments].v[i])
    /\ ploc \in {"lessons", "assessment"} => ~IsSentinel(input_data.v[K_curriculum])


Without(d, k) == [x \in DOMAIN d.v \ {k} |-> d.v[x]]
\* C27: while a loop runs the mapping its caller passed does not change; every
\* generator input equals it on all keys but previous_feedback, and the first
\* one equals it; in the pipeline neither teacher_input nor the input of a
\* stage ever holds a previous_feedback.
C27_FeedbackStaysInLoop ==
    /\ [][(pc \in {"loop", "evaluate"}) => (input_data' = input_data)]_vars
    /\ [](gen_input.t = "obj" =>
            Without(gen_input, K_previous_feedback) = Without(input_data, K_previous_feedback))
    /\ []((pc = "evaluate" /\ iteration = 1) => gen_input = input_data)
    /\ [](~HasKey(teacher_input, K_previous_feedback))
    /\ [](ploc \in {"planning", "lessons", "assessment"} =>
            ~HasKey(input_data, K_previous_feedback))
\* The first attempt of the second lesson loop, after rejections in the planner
\* loop and in the first lesson loop
C27_Witness ==
    /\ ploc = "lessons" /\ week_index = 1
    /\ pc = "evaluate" /\ iteration = 1
    /\ Count(log, "planner") = 3 /\ Count(log, "lesson") = 3
    /\ ~HasKey(gen_input, K_previous_feedback)
    /\ gen_input = input_data

\* C28 (as stated): when a loop of the pipeline has returned a result with a
\* warning, the pipeline goes on to the next loop or to the export; it does
\* not raise.
C28_WarningNeverStopsPipeline ==
    [][(ploc \in {"planning", "lessons", "assessment"} /\ pc = "returned" /\ HasWarning(ret)) =>
          (ploc' \in {"lessons", "assessment", "export"} /\ perr' = "none")]_vars


(***************************************************************************)
(* Properties of _get_or_create_session (checked under SpecSession).       *)
(***************************************************************************)
Finished(c) == spc[c] \in {"done", "failed"}

\* C10: an exception of get_session never leaves the call: create_session is
\* then called for the same key; the call fails only when neither the lookup
\* nor a creation gave a session; a lookup that finds a session creates none.
C10_LookupFailureFallsBack ==
    \A c \in Callers :
        /\ spc[c] = "failed" =>
              /\ serr[c] \in {"RuntimeError", "CreateError"}
              /\ looked_up[c] # "found"
              /\ creates[c] # <<>>
              /\ session[c] = NoSession
        /\ (looked_up[c] = "raised" /\ Finished(c)) =>
              /\ creates[c] # <<>>
              /\ \A i \in 1 .. Len(creates[c]) : creates[c][i] = skey[c]
        /\ looked_up[c] = "found" =>
              /\ creates[c] = <<>>
              /\ spc[c] = "done"
              /\ session[c] = skey[c]
\* A lookup that raised while the session existed, answered by one creation
C10_Witness ==
    \E c \in Callers :
        /\ looked_up[c] = "raised"
        /\ spc[c] = "done"
        /\ creates[c] = <<skey[c]>>
        /\ session[c] = skey[c]
        /\ created[skey[c]] = 2


\* C11 (as stated): for every (app_name, session_id, user_id) at most one
\* session is ever created.
C11_AtMostOneSessionPerKey ==
    \A k \in SessionKeys : created[k] <= 1

=============================================================================
